---- MODULE Spec2Model ----
(***************************************************************************)
(* Model of SparseMerkleTree (src/src/zk-optimized-sparse-merkle-tree.ts)  *)
(* in string (hexadecimal) mode, as constructed in src/play.ts.            *)
(*                                                                         *)
(* A hexadecimal string is a sequence of character codes: 0..15 are the    *)
(* hexadecimal digits, NonHexChar is any other character.  Keys and hashes *)
(* are such strings.  A Node is a JavaScript array object: the heap maps   *)
(* an object identity (a position of heap) to the array's two elements, so *)
(* that in-place writes and the identity-keyed Map behave as in the code.  *)
(***************************************************************************)
EXTENDS Integers, Sequences, FiniteSets, TLC

VARIABLES heap, nodes, root,      \* the tree: objects, this.nodes, this.root
          ref,                    \* reference key -> value hash map
          op, argKey, argVal,     \* the call in progress and its arguments
          argProof,               \* the proof handed to verifyProof
          err,                    \* the error the call raised
          got,                    \* result of get
          proof,                  \* result of createProof
          verified,               \* result of verifyProof
          hCalls,                 \* invocations of H by the call
          added,                  \* key and root value before it, of the last
                                  \* call when it was an add of an absent key
          gotPath,                \* result of keyToPath
          held,                   \* the last proof createProof returned, which
                                  \* the caller keeps, and what verifyProof
                                  \* answered for it when it was created
          nOps                    \* number of calls made

vars == <<heap, nodes, root, ref, op, argKey, argVal, argProof, err, got,
          proof, verified, hCalls, gotPath, added, held, nOps>>

\* ---------------------------------------------------------------- bounds
Depth == 2
MaxOps == 2
MaxValue == 2

\* ------------------------------------------------------------- constants
NonHexChar == 16
MaxHexLen == 64
ZERO == <<0>>

\* ------------------------------------------------------------ utils.ts
RECURSIVE toString2(_)
toString2(d) == IF d < 2 THEN <<d>> ELSE toString2(d \div 2) \o <<d % 2>>

RECURSIVE padStart(_, _)
padStart(s, n) == IF Len(s) >= n THEN s ELSE padStart(<<0>> \o s, n)

RECURSIVE hexToBinFrom(_, _, _)
hexToBinFrom(n, i, bin) ==
    IF i > Len(n) THEN bin
    ELSE hexToBinFrom(n, i + 1, bin \o padStart(toString2(n[i]), 4))

hexToBin(n) == hexToBinFrom(n, 2, toString2(n[1]))

checkHex(n) == /\ Len(n) >= 1
               /\ Len(n) <= MaxHexLen
               /\ \A i \in 1..Len(n) : n[i] \in 0..15

\* ------------------------------------------------- the hash function
\* The caller's H: an injective function into hexadecimal strings.
H(x, y) == <<15>> \o x \o y

\* hash testing its left operand only
hashLeftOnly(x, y) == IF x = ZERO THEN y ELSE H(x, y)

\* hash with a zero operand forcing the result to ZERO
hashAbsorbing(x, y) == IF x = ZERO \/ y = ZERO THEN ZERO ELSE H(x, y)

hash(x, y) == IF x = ZERO THEN y ELSE IF y = ZERO THEN x ELSE H(x, y)

\* 1 when hash(x, y) invokes H
hashCalls(x, y) == IF x = ZERO \/ y = ZERO THEN 0 ELSE 1

\* ------------------------------------------------------- private helpers
assertType(p) == IF checkHex(p) THEN "none" ELSE "TypeMismatch"

\* keyToPath reversing the padded bits (least-significant bit first)
keyToPathReversed(key, depth) ==
    LET bits == hexToBin(key)
        padded == padStart(bits, depth)
    IN IF Len(bits) > depth
       THEN [err |-> "KeyTooLarge", path |-> <<>>]
       ELSE [err |-> "none",
             path |-> [i \in 1..Len(padded) |->
                          IF padded[Len(padded) + 1 - i] = 1 THEN 1 ELSE 0]]

\* keyToPath of a tree whose depth is depth
keyToPathAt(key, depth) ==
    LET bits == hexToBin(key)
        padded == padStart(bits, depth)
    IN IF Len(bits) > depth
       THEN [err |-> "KeyTooLarge", path |-> <<>>]
       ELSE [err |-> "none",
             path |-> [i \in 1..Len(padded) |-> IF padded[i] = 1 THEN 1 ELSE 0]]

\* keyToPath with the length check off by one
keyToPathOffByOne(key) ==
    LET bits == hexToBin(key)
        padded == padStart(bits, Depth)
    IN IF Len(bits) > Depth + 1
       THEN [err |-> "KeyTooLarge", path |-> <<>>]
       ELSE [err |-> "none",
             path |-> [i \in 1..Len(padded) |-> IF padded[i] = 1 THEN 1 ELSE 0]]

keyToPath(key) == keyToPathAt(key, Depth)

\* The loop of retrieve at index i (source index i - 1); node is the loop's
\* variable `node`, which the loop never reassigns.
RECURSIVE retrieveLoop(_, _, _, _, _, _, _)
retrieveLoop(st, path, i, node, foundZeroNode, valueHash, siblings) ==
    IF i > Depth THEN [valueHash |-> valueHash, siblings |-> siblings]
    ELSE IF foundZeroNode
    THEN retrieveLoop(st, path, i + 1, node, TRUE, valueHash, Append(siblings, ZERO))
    ELSE IF node \notin DOMAIN st.nodes
    THEN retrieveLoop(st, path, i + 1, node, TRUE, valueHash, Append(siblings, ZERO))
    ELSE retrieveLoop(st, path, i + 1, node, FALSE,
                      IF i = Depth THEN st.heap[node][path[i] + 1] ELSE valueHash,
                      Append(siblings, st.heap[node][(1 - path[i]) + 1]))

retrieve(st, key) ==
    LET p == keyToPath(key) IN
    IF p.err # "none"
    THEN [err |-> p.err, valueHash |-> ZERO, siblings |-> <<>>]
    ELSE LET r == retrieveLoop(st, p.path, 1, st.root, FALSE, ZERO, <<>>) IN
         [err |-> "none", valueHash |-> r.valueHash, siblings |-> r.siblings]

\* ------------------------------------------------------------ update
\* The walk that collects nodesOnPath.
RECURSIVE walkLoop(_, _, _, _, _)
walkLoop(st, path, i, nodeSought, nodesOnPath) ==
    IF i > Len(path) THEN nodesOnPath
    ELSE IF nodeSought \notin DOMAIN st.nodes THEN nodesOnPath
    ELSE walkLoop(st, path, i + 1, st.nodes[nodeSought][path[i] + 1],
                  Append(nodesOnPath, nodeSought))

\* The pruning loop of the removal branch at index i (source index i - 1).
RECURSIVE removalLoop(_, _, _, _)
removalLoop(st, path, nodesOnPath, i) ==
    IF i < 1 THEN [st |-> st, nodesOnPath |-> nodesOnPath]
    ELSE IF st.heap[nodesOnPath[i]][(1 - path[i]) + 1] = ZERO
    THEN LET removedNode == nodesOnPath[Len(nodesOnPath)]
             popped == SubSeq(nodesOnPath, 1, Len(nodesOnPath) - 1)
             nodes1 == [n \in (DOMAIN st.nodes) \ {removedNode} |-> st.nodes[n]]
             empty == DOMAIN nodes1 = {}
             heap1 == IF empty THEN Append(st.heap, <<ZERO, ZERO>>) ELSE st.heap
             root1 == IF empty THEN Len(heap1) ELSE st.root
             heap2 == IF i > 1
                      THEN [heap1 EXCEPT ![popped[Len(popped)]][path[i - 1] + 1] = ZERO]
                      ELSE heap1
         IN removalLoop([st EXCEPT !.heap = heap2, !.nodes = nodes1, !.root = root1],
                        path, popped, i - 1)
    ELSE [st |-> st, nodesOnPath |-> nodesOnPath]

\* removal with the length check after the pruning loop
removalLate(st, path, nodesOnPath) ==
    LET r == removalLoop(st, path, nodesOnPath, Len(nodesOnPath)) IN
    IF Len(nodesOnPath) = Len(path)
    THEN [err |-> "InvariantViolation", st |-> r.st, nodesOnPath |-> r.nodesOnPath]
    ELSE [err |-> "none", st |-> r.st, nodesOnPath |-> r.nodesOnPath]

removal(st, path, nodesOnPath) ==
    IF Len(nodesOnPath) = Len(path)
    THEN [err |-> "InvariantViolation", st |-> st, nodesOnPath |-> nodesOnPath]
    ELSE LET r == removalLoop(st, path, nodesOnPath, Len(nodesOnPath)) IN
         [err |-> "none", st |-> r.st, nodesOnPath |-> r.nodesOnPath]

\* The building loop of the insertion branch at index i (source index i - 1),
\* down to index stop + 1.
RECURSIVE insertLoop(_, _, _, _, _)
insertLoop(st, path, newNode, i, stop) ==
    IF i <= stop THEN [st |-> st, newNode |-> newNode]
    ELSE LET zeroNode == Len(st.heap) + 1
             heap1 == Append(st.heap, <<ZERO, ZERO>>)
             childNodes == IF 1 - path[i] # 0 THEN <<newNode, zeroNode>>
                                               ELSE <<zeroNode, newNode>>
             c0 == heap1[childNodes[1]]
             c1 == heap1[childNodes[2]]
             created == Len(heap1) + 1
             heap2 == Append(heap1, <<hash(c0[1], c0[2]), hash(c1[1], c1[2])>>)
             nodes1 == [n \in (DOMAIN st.nodes) \cup {created} |->
                           IF n = created THEN childNodes ELSE st.nodes[n]]
         IN insertLoop([heap |-> heap2, nodes |-> nodes1,
                        root |-> IF i = 1 THEN created ELSE st.root,
                        calls |-> st.calls + hashCalls(c0[1], c0[2]) + hashCalls(c1[1], c1[2])],
                       path, created, i - 1, stop)

insertion(st, path, newValueHash, nodesOnPath) ==
    LET leaf == Len(st.heap) + 1
        st0 == [st EXCEPT !.heap = Append(st.heap, <<newValueHash, ZERO>>)]
        b == insertLoop(st0, path, leaf, Len(path), Len(nodesOnPath))
        n == b.st.heap[b.newNode]
        last == Len(nodesOnPath)
    IN IF last > 0
       THEN [b.st EXCEPT !.heap[nodesOnPath[last]][path[last] + 1] = hash(n[1], n[2]),
                         !.calls = b.st.calls + hashCalls(n[1], n[2])]
       ELSE b.st

\* The re-hash loop at index i (source index i - 1).
RECURSIVE rehashLoop(_, _, _, _)
rehashLoop(st, path, nodesOnPath, i) ==
    IF i < 1 THEN st
    ELSE LET childNodes == st.nodes[nodesOnPath[i]]
             c == st.heap[childNodes[path[i] + 1]]
         IN rehashLoop([st EXCEPT !.heap[nodesOnPath[i]][path[i] + 1] = hash(c[1], c[2]),
                                  !.calls = st.calls + hashCalls(c[1], c[2])],
                       path, nodesOnPath, i - 1)

rehash(st, path, nodesOnPath) ==
    IF Len(nodesOnPath) >= 2 THEN rehashLoop(st, path, nodesOnPath, Len(nodesOnPath) - 1)
    ELSE st

\* update without the removal branch: ZERO is written as any other value hash
updateNoRemoval(st, key, newValueHash) ==
    IF assertType(key) # "none" THEN [err |-> assertType(key), st |-> st]
    ELSE IF assertType(newValueHash) # "none" THEN [err |-> assertType(newValueHash), st |-> st]
    ELSE LET r == retrieve(st, key) IN
    IF r.err # "none" THEN [err |-> r.err, st |-> st]
    ELSE IF r.valueHash = newValueHash THEN [err |-> "none", st |-> st]
    ELSE LET path == keyToPath(key).path
             nodesOnPath == walkLoop(st, path, 1, st.root, <<>>)
         IN [err |-> "none",
             st |-> rehash(insertion(st, path, newValueHash, nodesOnPath),
                           path, nodesOnPath)]

update(st, key, newValueHash) ==
    IF assertType(key) # "none" THEN [err |-> assertType(key), st |-> st]
    ELSE IF assertType(newValueHash) # "none" THEN [err |-> assertType(newValueHash), st |-> st]
    ELSE LET r == retrieve(st, key) IN
    IF r.err # "none" THEN [err |-> r.err, st |-> st]
    ELSE IF r.valueHash = newValueHash THEN [err |-> "none", st |-> st]
    ELSE LET path == keyToPath(key).path
             nodesOnPath == walkLoop(st, path, 1, st.root, <<>>)
         IN IF newValueHash = ZERO
            THEN LET d == removal(st, path, nodesOnPath) IN
                 IF d.err # "none" THEN [err |-> d.err, st |-> d.st]
                 ELSE [err |-> "none", st |-> rehash(d.st, path, d.nodesOnPath)]
            ELSE [err |-> "none",
                  st |-> rehash(insertion(st, path, newValueHash, nodesOnPath),
                                path, nodesOnPath)]

\* add without the check of the reserved value
addUnchecked(st, key, valueHash) == update(st, key, valueHash)

add(st, key, valueHash) ==
    IF valueHash = ZERO THEN [err |-> "ReservedValue", st |-> st]
    ELSE update(st, key, valueHash)

delete(st, key) == update(st, key, ZERO)

get(st, key) ==
    IF assertType(key) # "none" THEN [err |-> assertType(key), valueHash |-> ZERO]
    ELSE LET r == retrieve(st, key) IN [err |-> r.err, valueHash |-> r.valueHash]

\* ------------------------------------------------------------ proofs
NoProof == [valueHash |-> ZERO, rootHash |-> ZERO, key |-> ZERO, siblings |-> <<>>]

\* createProof hashing the root with H itself instead of the wrapped hash
createProofRawRoot(st, key) ==
    IF assertType(key) # "none"
    THEN [err |-> assertType(key), proof |-> NoProof, calls |-> 0]
    ELSE LET r == retrieve(st, key)
             rt == st.heap[st.root]
         IN IF r.err # "none" THEN [err |-> r.err, proof |-> NoProof, calls |-> 0]
            ELSE [err |-> "none",
                  proof |-> [valueHash |-> r.valueHash, rootHash |-> H(rt[1], rt[2]),
                             key |-> key, siblings |-> r.siblings],
                  calls |-> 1]

createProof(st, key) ==
    IF assertType(key) # "none"
    THEN [err |-> assertType(key), proof |-> NoProof, calls |-> 0]
    ELSE LET r == retrieve(st, key)
             rt == st.heap[st.root]
         IN IF r.err # "none" THEN [err |-> r.err, proof |-> NoProof, calls |-> 0]
            ELSE [err |-> "none",
                  proof |-> [valueHash |-> r.valueHash, rootHash |-> hash(rt[1], rt[2]),
                             key |-> key, siblings |-> r.siblings],
                  calls |-> hashCalls(rt[1], rt[2])]

\* The fold of verifyProof at index i (source index i - 1).
RECURSIVE verifyLoop(_, _, _, _)
verifyLoop(p, path, i, acc) ==
    IF i < 1 THEN acc
    ELSE LET l == IF path[i] # 0 THEN p.siblings[i] ELSE acc.nodeHash
             r == IF path[i] # 0 THEN acc.nodeHash ELSE p.siblings[i]
         IN verifyLoop(p, path, i - 1,
                       [nodeHash |-> hash(l, r), calls |-> acc.calls + hashCalls(l, r)])

\* verifyProof comparing the folded hash with the hash of the tree's root
verifyProofAgainstTree(p) ==
    LET k == keyToPath(p.key) IN
    IF k.err # "none" THEN [err |-> k.err, ok |-> FALSE, calls |-> 0]
    ELSE LET f == verifyLoop(p, k.path, Len(p.siblings),
                             [nodeHash |-> p.valueHash, calls |-> 0])
         IN [err |-> "none",
             ok |-> (f.nodeHash = hash(heap[root][1], heap[root][2])),
             calls |-> f.calls]

verifyProof(p) ==
    LET k == keyToPath(p.key) IN
    IF k.err # "none" THEN [err |-> k.err, ok |-> FALSE, calls |-> 0]
    ELSE LET f == verifyLoop(p, k.path, Len(p.siblings),
                             [nodeHash |-> p.valueHash, calls |-> 0])
         IN [err |-> "none", ok |-> (f.nodeHash = p.rootHash), calls |-> f.calls]

\* ------------------------------------------------------------ inputs
RECURSIVE pow2(_)
pow2(n) == IF n = 0 THEN 1 ELSE 2 * pow2(n - 1)

\* keys whose hexToBin has at most Depth bits
ValidKeys == {<<d>> : d \in 0..(pow2(Depth) - 1)}

\* a key one bit too long, a key written with a leading zero, a non-hex key
Keys == ValidKeys \cup {<<pow2(Depth)>>, <<0, 1>>, <<NonHexChar>>}

Values == {<<v>> : v \in 1..MaxValue}

Hashes == Values \cup {ZERO, <<NonHexChar>>}

\* ------------------------------------------------------------ state
tree == [heap |-> heap, nodes |-> nodes, root |-> root, calls |-> 0]

rootValue == heap[root]

rootHash == hash(heap[root][1], heap[root][2])

NoAdd == [key |-> <<>>, root |-> <<>>]

NoHeld == [proof |-> NoProof, ok |-> FALSE]

\* no call in progress: the caller holds no result
Idle ==
    /\ op = "idle"
    /\ argKey = ZERO
    /\ argVal = ZERO
    /\ argProof = NoProof
    /\ err = "none"
    /\ got = ZERO
    /\ proof = NoProof
    /\ verified = FALSE
    /\ hCalls = 0
    /\ gotPath = <<>>

Init ==
    /\ heap = << <<ZERO, ZERO>> >>
    /\ nodes = << >>
    /\ root = 1
    /\ ref = [k \in ValidKeys |-> ZERO]
    /\ Idle
    /\ added = NoAdd
    /\ held = NoHeld
    /\ nOps = 0

\* bookkeeping common to all calls: calls are made one after the other
Called(name, key, val, e) ==
    /\ op = "idle"
    /\ nOps < MaxOps
    /\ nOps' = nOps + 1
    /\ op' = name
    /\ argKey' = key
    /\ argVal' = val
    /\ err' = e
    /\ added' = IF name = "add" /\ e = "none" /\ ref[key] = ZERO
                THEN [key |-> key, root |-> rootValue]
                ELSE NoAdd
    /\ UNCHANGED gotPath

\* a mutating call with outcome r, writing val for key when it completes
Mutated(key, val, r) ==
    /\ heap' = r.st.heap
    /\ nodes' = r.st.nodes
    /\ root' = r.st.root
    /\ hCalls' = r.st.calls
    /\ ref' = IF r.err = "none" THEN [ref EXCEPT ![key] = val] ELSE ref
    /\ UNCHANGED <<argProof, got, proof, verified, held>>

Get(key) ==
    LET r == get(tree, key) IN
    /\ Called("get", key, ZERO, r.err)
    /\ got' = r.valueHash
    /\ hCalls' = 0
    /\ UNCHANGED <<heap, nodes, root, ref, argProof, proof, verified, held>>

Add(key, valueHash) ==
    LET r == add(tree, key, valueHash) IN
    /\ Called("add", key, valueHash, r.err)
    /\ Mutated(key, valueHash, r)

Update(key, newValueHash) ==
    LET r == update(tree, key, newValueHash) IN
    /\ Called("update", key, newValueHash, r.err)
    /\ Mutated(key, newValueHash, r)

Delete(key) ==
    LET r == delete(tree, key) IN
    /\ Called("delete", key, ZERO, r.err)
    /\ Mutated(key, ZERO, r)

CreateProof(key) ==
    LET r == createProof(tree, key) IN
    /\ Called("createProof", key, ZERO, r.err)
    /\ proof' = r.proof
    /\ hCalls' = r.calls
    /\ held' = IF r.err = "none"
               THEN [proof |-> r.proof, ok |-> verifyProof(r.proof).ok]
               ELSE held
    /\ UNCHANGED <<heap, nodes, root, ref, argProof, got, verified>>

VerifyProof(p) ==
    LET r == verifyProof(p) IN
    /\ Called("verifyProof", p.key, ZERO, r.err)
    /\ argProof' = p
    /\ verified' = r.ok
    /\ hCalls' = r.calls
    /\ UNCHANGED <<heap, nodes, root, ref, got, proof, held>>

\* The call is over: the caller has taken its result or its error.
Return ==
    /\ op # "idle"
    /\ op' = "idle"
    /\ argKey' = ZERO
    /\ argVal' = ZERO
    /\ argProof' = NoProof
    /\ err' = "none"
    /\ got' = ZERO
    /\ proof' = NoProof
    /\ verified' = FALSE
    /\ hCalls' = 0
    /\ gotPath' = <<>>
    /\ UNCHANGED <<heap, nodes, root, ref, added, held, nOps>>

\* the proofs a caller hands to verifyProof: what createProof returns for a
\* key of the tree, the proof the caller kept, and a proof without siblings
\* for any hexadecimal key
ProofInputs ==
    {createProof(tree, k).proof : k \in ValidKeys}
        \cup {held.proof}
        \cup {[NoProof EXCEPT !.key = k] : k \in Keys \ {<<NonHexChar>>}}

Next ==
    \/ \E key \in Keys : Get(key)
    \/ \E key \in Keys, valueHash \in Hashes : Add(key, valueHash)
    \/ \E key \in Keys, newValueHash \in Hashes : Update(key, newValueHash)
    \/ \E key \in Keys : Delete(key)
    \/ \E key \in Keys : CreateProof(key)
    \/ \E p \in ProofInputs : VerifyProof(p)
    \/ Return

Spec == Init /\ [][Next]_vars

\* ------------------------------------------- the path encoder on its own
\* the depth of the tree whose keyToPath is called
PathDepth == 6

\* keys of one or two hexadecimal digits
PathKeys == {<<a>> : a \in 0..15} \cup {<<a, b>> : a, b \in 0..15}

KeyToPath(key) ==
    LET r == keyToPathAt(key, PathDepth) IN
    /\ op = "idle"
    /\ op' = "keyToPath"
    /\ argKey' = key
    /\ err' = r.err
    /\ gotPath' = r.path
    /\ UNCHANGED <<heap, nodes, root, ref, argVal, argProof, got, proof,
                   verified, hCalls, added, held, nOps>>

PathNext ==
    \/ \E key \in PathKeys : KeyToPath(key)
    \/ Return

PathSpec == Init /\ [][PathNext]_vars

\* ------------------------------------------------------------ claims
\* C1 (round trip): a get that returns, returns the value hash most recently
\* written for its key by a completed add/update, or ZERO if the key was
\* never written or was deleted afterwards.
C1_RoundTrip == (op = "get" /\ err = "none") => got = ref[argKey]

\* C2 (proof soundness): verifyProof of the proof createProof returns for a
\* key in the current state is true.
C2_ProofSoundness ==
    (/\ op = "verifyProof"
     /\ err = "none"
     /\ argProof = createProof(tree, argKey).proof) => verified

\* The hash of the fully materialized tree below the node reached by the
\* direction bits prefix, whose leaves are the reference map's value hashes.
RECURSIVE merkle(_)
merkle(prefix) ==
    IF Len(prefix) = Depth
    THEN ref[CHOOSE k \in ValidKeys : keyToPath(k).path = prefix]
    ELSE hash(merkle(Append(prefix, 0)), merkle(Append(prefix, 1)))

\* C3 (root commitment): the root hash is the hash of the fully
\* materialized depth-Depth tree of the current value hashes.
C3_RootCommitment == rootHash = merkle(<<>>)

\* C4 (deletion restores state): add(k, v) of an absent key k followed by
\* delete(k) leaves a root equal by value to the root before the add.
C4_DeleteRestores ==
    [][(added # NoAdd /\ op' = "delete" /\ argKey' = added.key)
          => heap'[root'] = added.root]_vars

\* C5 (empty root): the root is (ZERO, ZERO) exactly when no key has a
\* nonzero value hash.
C5_RootZeroIffEmpty ==
    (rootValue = <<ZERO, ZERO>>) <=> (\A k \in ValidKeys : ref[k] = ZERO)

\* C6 (failure atomicity): a call that raises an error leaves the root and
\* the NodeStore as they were (every object and every entry), and so every
\* get result.
C6_FailureAtomicity ==
    [][err' # "none" => (heap' = heap /\ nodes' = nodes /\ root' = root)]_vars

\* A delete raised the deletion invariant error on a nonempty store.
C6_Witness == op = "delete" /\ err = "InvariantViolation" /\ DOMAIN nodes # {}

\* The proof of an empty tree for key.
zeroProof(key) ==
    [valueHash |-> ZERO, rootHash |-> ZERO, key |-> key,
     siblings |-> [i \in 1..Depth |-> ZERO]]

\* C7 (empty tree): as long as no call has changed the tree since its
\* construction (no object but the constructor's root exists), the root is
\* (ZERO, ZERO), the NodeStore is empty, get returns ZERO and createProof
\* returns the all-ZERO proof with Depth siblings, which verifies.
C7_EmptyTree ==
    Len(heap) = 1 =>
        /\ rootValue = <<ZERO, ZERO>>
        /\ DOMAIN nodes = {}
        /\ \A k \in ValidKeys :
              /\ get(tree, k) = [err |-> "none", valueHash |-> ZERO]
              /\ createProof(tree, k).err = "none"
              /\ createProof(tree, k).proof = zeroProof(k)
              /\ verifyProof(createProof(tree, k).proof).ok
        /\ (op = "get" /\ err = "none") => got = ZERO
        /\ (op = "createProof" /\ err = "none") => proof = zeroProof(argKey)
        /\ (op = "verifyProof" /\ err = "none" /\ argProof = zeroProof(argKey)) => verified

\* The proof created on the untouched tree was verified.
C7_Witness ==
    /\ Len(heap) = 1
    /\ op = "verifyProof"
    /\ err = "none"
    /\ argProof = zeroProof(argKey)
    /\ verified

\* C8 (single-entry collapse): after one add(k, v) on the new tree the root
\* hash is v, and neither the add nor the root hash invoked H.
C8_SingleEntryCollapse ==
    (nOps = 1 /\ op = "add" /\ err = "none") =>
        /\ rootHash = argVal
        /\ hCalls = 0
        /\ hashCalls(rootValue[1], rootValue[2]) = 0

\* The first call was an add that completed and built the path of its key.
C8_Witness ==
    /\ nOps = 1
    /\ op = "add"
    /\ err = "none"
    /\ Cardinality(DOMAIN nodes) = Depth

\* C9 (reserved value): add(key, ZERO) raises the reserved-value error and
\* leaves root and NodeStore unchanged; add of another value does what
\* update does.
C9_AddReserved ==
    [][op' = "add" =>
         IF argVal' = ZERO
         THEN err' = "ReservedValue" /\ heap' = heap /\ nodes' = nodes /\ root' = root
         ELSE LET u == update(tree, argKey', argVal') IN
              /\ err' = u.err
              /\ heap' = u.st.heap
              /\ nodes' = u.st.nodes
              /\ root' = u.st.root]_vars

\* add(key, ZERO) was called on a nonempty tree with a key that is not a key
\* of the tree.
C9_Witness ==
    /\ op = "add"
    /\ argVal = ZERO
    /\ argKey \notin ValidKeys
    /\ err = "ReservedValue"
    /\ DOMAIN nodes # {}

\* The number a hexadecimal string denotes, and the length of its binary
\* representation.
RECURSIVE hexValue(_)
hexValue(n) == IF Len(n) = 0 THEN 0
               ELSE 16 * hexValue(SubSeq(n, 1, Len(n) - 1)) + n[Len(n)]

bitLength(n) == Len(toString2(hexValue(n)))

KeyCalls == {"get", "add", "update", "delete", "createProof", "verifyProof"}

\* C10 as claimed (depth boundary): every call with a key whose natural
\* bit-length exceeds Depth raises the key-too-large error.
C10_DepthBoundaryAsClaimed ==
    (op \in KeyCalls /\ checkHex(argKey) /\ bitLength(argKey) > Depth)
        => err = "KeyTooLarge"

\* C10 as amended: every call with a key whose natural bit-length exceeds
\* Depth raises the key-too-large error, except that add with the value ZERO
\* raises the reserved-value error and add/update with a value hash that is
\* not hexadecimal raise the type-mismatch error.
C10_DepthBoundary ==
    (/\ op \in KeyCalls /\ checkHex(argKey) /\ bitLength(argKey) > Depth
     /\ ~(op = "add" /\ argVal = ZERO)
     /\ checkHex(argVal))
        => err = "KeyTooLarge"

\* verifyProof raised the key-too-large error for the key of its proof.
C10_Witness ==
    /\ op = "verifyProof"
    /\ bitLength(argKey) > Depth
    /\ err = "KeyTooLarge"

\* The hashes the program holds: the components of every node, and the
\* value hashes a caller passes.
hashesInUse ==
    {heap[n][j] : n \in 1..Len(heap), j \in 1..2} \cup Values \cup {ZERO}

\* C11 (hash combinator): for all hashes x, y the wrapped hash returns y when
\* x is ZERO and x when y is ZERO (so ZERO for two ZEROs), and H(x, y) when
\* neither is ZERO; H is invoked only when neither operand is ZERO, and a
\* call counts one invocation of H for each such hash it computes.
C11_HashCombinator ==
    /\ \A x, y \in hashesInUse :
          /\ hash(ZERO, y) = y
          /\ hash(x, ZERO) = x
          /\ (x # ZERO /\ y # ZERO) => hash(x, y) = H(x, y)
          /\ hashCalls(x, y) = 1 => (x # ZERO /\ y # ZERO)
    /\ hash(ZERO, ZERO) = ZERO
    /\ (op = "createProof" /\ err = "none") =>
          /\ proof.rootHash = IF rootValue[1] = ZERO THEN rootValue[2]
                              ELSE IF rootValue[2] = ZERO THEN rootValue[1]
                              ELSE H(rootValue[1], rootValue[2])
          /\ hCalls = IF rootValue[1] # ZERO /\ rootValue[2] # ZERO THEN 1 ELSE 0

\* A call invoked H: a node holds a hash H made of two nonzero hashes.
C11_Witness ==
    /\ hCalls > 0
    /\ \E n \in 1..Len(heap) : \E x, y \in hashesInUse \ {ZERO} :
          heap[n][1] = H(x, y) \/ heap[n][2] = H(x, y)

\* C12 (verifyProof is independent of the tree): verifyProof leaves root and
\* NodeStore unchanged; add, update and delete leave the proof a caller keeps
\* as it was; and verifyProof of the kept proof answers, in every later
\* state of the tree (every state a step leaves), what it answered when the
\* proof was created.
C12_VerifyIndependent ==
    [][/\ op' = "verifyProof" => (heap' = heap /\ nodes' = nodes /\ root' = root)
       /\ op' \in {"add", "update", "delete"} => held' = held
       /\ held # NoHeld => verifyProof(held.proof).ok = held.ok
       /\ (op' = "verifyProof" /\ err' = "none" /\ held # NoHeld
              /\ argProof' = held.proof) => verified' = held.ok]_vars

\* The caller keeps a proof and a later call has changed the root hash.
C12_Witness ==
    /\ held # NoHeld
    /\ op \in {"add", "update", "delete"}
    /\ err = "none"
    /\ rootHash # held.proof.rootHash

\* The number of materialized nodes the walk of update collects on the path
\* of key, from the root down.
walkLength(st, key) == Len(walkLoop(st, keyToPath(key).path, 1, st.root, <<>>))

\* C13 (deletion invariant): delete raises the invariant-violation error
\* only when the walk along the key's path did not reach depth Depth; when
\* all Depth nodes on the key's path are materialized it completes.
C13_DeleteInvariant ==
    [][(op' = "delete" /\ argKey' \in ValidKeys) =>
          /\ err' = "InvariantViolation" => walkLength(tree, argKey') < Depth
          /\ walkLength(tree, argKey') = Depth => err' = "none"]_vars

\* The walk along path from node at level i that descends into the child
\* the path bit selects: the sibling hashes in root-to-leaf order, ZERO from
\* the first node that is not materialized, and the entry at depth Depth.
RECURSIVE descendingWalk(_, _, _, _, _)
descendingWalk(st, path, i, node, siblings) ==
    IF i > Depth THEN [valueHash |-> ZERO, siblings |-> siblings]
    ELSE IF node \notin DOMAIN st.nodes
    THEN [valueHash |-> ZERO,
          siblings |-> siblings \o [j \in 1..(Depth - i + 1) |-> ZERO]]
    ELSE IF i = Depth
    THEN [valueHash |-> st.heap[node][path[i] + 1],
          siblings |-> Append(siblings, st.heap[node][(1 - path[i]) + 1])]
    ELSE descendingWalk(st, path, i + 1, st.nodes[node][path[i] + 1],
                        Append(siblings, st.heap[node][(1 - path[i]) + 1]))

\* C14 (retrieval walk): the proof createProof returns for a key has Depth
\* siblings, entry i being the hash held for the child opposite to path bit
\* i by the node reached from the root along path bits 0..i-1, ZERO from the
\* first node that is not materialized; its value hash is the entry found
\* at depth Depth on that path.
C14_RetrievalWalk ==
    \A k \in ValidKeys :
        LET p == createProof(tree, k).proof
            w == descendingWalk(tree, keyToPath(k).path, 1, root, <<>>)
        IN /\ Len(p.siblings) = Depth
           /\ p.siblings = w.siblings
           /\ p.valueHash = w.valueHash

\* The hash of the node object n.
nodeHash(n) == hash(heap[n][1], heap[n][2])

\* C15 (store consistency): for every NodeStore entry node -> (left, right),
\* node[0] is the hash of left and node[1] the hash of right; so after an
\* insertion at a fork the ancestor's stored child on that side is the new
\* subtree's node.
C15_StoreConsistency ==
    \A n \in DOMAIN nodes :
        /\ heap[n][1] = nodeHash(nodes[n][1])
        /\ heap[n][2] = nodeHash(nodes[n][2])

\* C16 (no-op update): update(key, v) of a key whose current value hash is v
\* raises no error and leaves the root and the NodeStore as they were (the
\* same objects with the same contents); so does delete of a key whose
\* current value hash is ZERO.
C16_NoOpUpdate ==
    [][(/\ op' \in {"update", "delete"}
        /\ argKey' \in ValidKeys
        /\ ref[argKey'] = argVal') =>
          /\ err' = "none"
          /\ root' = root
          /\ nodes' = nodes
          /\ SubSeq(heap', 1, Len(heap)) = heap]_vars

\* C17 (zero-subtree compaction): no node that is a key of the NodeStore has
\* both components ZERO.
C17_NoZeroNodeStored ==
    \A n \in DOMAIN nodes : heap[n] # <<ZERO, ZERO>>

\* A delete went through the removal branch on a nonempty store and
\* completed: the value retrieve reads for its key is still not ZERO, so
\* update did not return at its first test.
C17_Witness ==
    /\ op = "delete"
    /\ err = "none"
    /\ DOMAIN nodes # {}
    /\ get(tree, argKey).valueHash # ZERO

CandidateProofs ==
    [valueHash : Values \cup {ZERO}, rootHash : {rootHash}, key : ValidKeys,
     siblings : [1..Depth -> Values \cup {ZERO}]]

\* C19 (proof binding): a proof with Depth siblings that verifyProof accepts
\* and whose root hash is the tree's current root hash has the value hash
\* currently stored for its key (ZERO if the key is absent).
C19_ProofBinding ==
    \A p \in CandidateProofs :
        verifyProof(p).ok => p.valueHash = ref[p.key]

\* The root hash of the tree st.
rootHashOf(st) == hash(st.heap[st.root][1], st.heap[st.root][2])

\* C20 (history independence): two sequences of calls that leave the same
\* entries yield equal root hashes; here, from the current tree, adding two
\* distinct keys in one order and in the other, every add completing.
C20_HistoryIndependence ==
    \A k1, k2 \in ValidKeys : \A v1, v2 \in Values :
        LET a1 == add(tree, k1, v1)
            a2 == add(a1.st, k2, v2)
            b1 == add(tree, k2, v2)
            b2 == add(b1.st, k1, v1)
        IN (/\ k1 # k2
            /\ a1.err = "none" /\ a2.err = "none"
            /\ b1.err = "none" /\ b2.err = "none")
              => rootHashOf(a2.st) = rootHashOf(b2.st)

\* The keys that currently hold a nonzero value hash.
presentKeys == {k \in ValidKeys : ref[k] # ZERO}

\* C21 (no orphaned nodes): the NodeStore has at most Depth entries for each
\* key that holds a nonzero value hash, and none when no key holds one.
C21_NoOrphanedNodes ==
    /\ Cardinality(DOMAIN nodes) <= Depth * Cardinality(presentKeys)
    /\ presentKeys = {} => DOMAIN nodes = {}

====
